---- MODULE Spec2Model ----
(***************************************************************************)
(* Model of the knowledge scoping engine of the chat route                 *)
(* (src/app/api/chat/route.ts, the version of lines 537-883): the          *)
(* process-wide knowledge cache and its load, the relevance filter, the    *)
(* priority ranking and truncation, the context serializer, the history    *)
(* normalisation, and the POST handler that runs them between its awaits.  *)
(*                                                                         *)
(* Strings are sequences of one-character strings, so that toLowerCase,    *)
(* includes, split and trim are computed and not assumed.  The null /      *)
(* undefined value of JavaScript is Null.                                  *)
(***************************************************************************)
EXTENDS Integers, Sequences, FiniteSets, TLC

VARIABLES supabase, groqKey, db, knowledgeCache, req, cacheWrites, fetches

vars == <<supabase, groqKey, db, knowledgeCache, req, cacheWrites, fetches>>

\* ------------------------------------------------------------------ bounds
\* Concurrent requests of the store specification.
NReq == 3
\* Longest query of the match specification.
MaxQueryLen == 3
\* Largest corpus of the rank specification (more than maxRows).
MaxRows == 14
\* Longest raw history of the history specification (more than MAX_HISTORY_MESSAGES).
MaxHistLen == 8
\* Largest corpus of the frame specification.
FrameRows == 3
\* Requests of the liveness specification.
LiveReqs == 2

\* ----------------------------------------------------------------- values
Null == <<"null">>

Min(a, b) == IF a < b THEN a ELSE b

LowerLetters ==
  {"a","b","c","d","e","f","g","h","i","j","k","l","m",
   "n","o","p","q","r","s","t","u","v","w","x","y","z"}
UpperLetters == {"A", "B", "O", "S"}
Digits == {"0","1","2","3","4","5","6","7","8","9"}

\* String.prototype.toLowerCase, one character.
LowerChar(c) ==
  CASE c = "A" -> "a"
    [] c = "B" -> "b"
    [] c = "O" -> "o"
    [] c = "S" -> "s"
    [] OTHER -> c

toLowerCase(s) == [i \in 1..Len(s) |-> LowerChar(s[i])]

\* The class \w of a regular expression; \W is its complement.
IsWordChar(c) == c \in LowerLetters \cup UpperLetters \cup Digits \cup {"_"}

\* The white space String.prototype.trim removes.
IsSpace(c) == c \in {" ", "\t", "\n"}

\* String.prototype.includes
includes(q, s) ==
  \E i \in 0..(Len(q) - Len(s)) : SubSeq(q, i + 1, i + Len(s)) = s

\* q.split(/\W+/): the pieces between maximal runs of non-word characters
\* (a leading or trailing run gives an empty piece, "" gives [""]).
RECURSIVE SplitFrom(_, _, _, _, _)
SplitFrom(s, i, cur, inSep, acc) ==
  IF i > Len(s) THEN Append(acc, cur)
  ELSE IF IsWordChar(s[i]) THEN SplitFrom(s, i + 1, Append(cur, s[i]), FALSE, acc)
  ELSE IF inSep THEN SplitFrom(s, i + 1, cur, TRUE, acc)
  ELSE SplitFrom(s, i + 1, <<>>, TRUE, Append(acc, cur))

splitNonWord(s) == SplitFrom(s, 1, <<>>, FALSE, <<>>)

\* String.prototype.trim
RECURSIVE trimStart(_)
trimStart(s) ==
  IF s # <<>> /\ IsSpace(Head(s)) THEN trimStart(Tail(s)) ELSE s

RECURSIVE trimEnd(_)
trimEnd(s) ==
  IF s # <<>> /\ IsSpace(s[Len(s)]) THEN trimEnd(SubSeq(s, 1, Len(s) - 1)) ELSE s

trim(s) == trimEnd(trimStart(s))

\* x ?? d
Coalesce(x, d) == IF x = Null THEN d ELSE x

\* x?.toLowerCase?.() ?? ""
LowerOrEmpty(x) == IF x = Null THEN <<>> ELSE toLowerCase(x)

\* ---------------------------------------------------------------- strings
S_summary == <<"s","u","m","m","a","r","y">>
S_Summary == <<"S","u","m","m","a","r","y">>
S_project_summary ==
  <<"p","r","o","j","e","c","t","_","s","u","m","m","a","r","y">>
S_outcome == <<"o","u","t","c","o","m","e">>
S_method == <<"m","e","t","h","o","d">>
S_quote == <<"q","u","o","t","e">>
S_overview == <<"o","v","e","r","v","i","e","w">>
S_Overview == <<"O","v","e","r","v","i","e","w">>
S_supporting_detail ==
  <<"s","u","p","p","o","r","t","i","n","g","_","d","e","t","a","i","l">>
S_deep_dive == <<"d","e","e","p","_","d","i","v","e">>
S_assistant == <<"a","s","s","i","s","t","a","n","t">>
S_Assistant == <<"A","s","s","i","s","t","a","n","t">>
S_user == <<"u","s","e","r">>
S_system == <<"s","y","s","t","e","m">>

\* ------------------------------------------------------------- the ranker
PREFERRED_TYPES == {S_project_summary, S_summary, S_outcome, S_method}

depthScoreExactCase(depth) ==
  IF depth = S_overview THEN 2
  ELSE IF depth = S_supporting_detail THEN 1
  ELSE 0
depthScore(depth) ==
  LET d == LowerOrEmpty(depth)
  IN  IF d = S_overview THEN 2
      ELSE IF d = S_supporting_detail THEN 1
      ELSE 0

\* aScore / bScore of the sort comparator.
rowScore(row) ==
  (IF toLowerCase(row.type) \in PREFERRED_TYPES THEN 1 ELSE 0) * 2
    + depthScore(row.depth)

\* The comparator handed to sort: negative puts a first.
compareAscending(a, b) == rowScore(a) - rowScore(b)
compareRows(a, b) == rowScore(b) - rowScore(a)

\* Array.prototype.sort is stable (ECMAScript 2019): x goes behind every
\* element that does not have to follow it.
RECURSIVE InsertStable(_, _)
InsertStable(sorted, x) ==
  IF sorted = <<>> THEN <<x>>
  ELSE IF compareRows(sorted[Len(sorted)], x) > 0
       THEN Append(InsertStable(SubSeq(sorted, 1, Len(sorted) - 1), x),
                   sorted[Len(sorted)])
       ELSE Append(sorted, x)

RECURSIVE sortRows(_)
sortRows(rows) ==
  IF rows = <<>> THEN <<>>
  ELSE InsertStable(sortRows(SubSeq(rows, 1, Len(rows) - 1)), rows[Len(rows)])

\* ------------------------------------------------------------- the filter
Truthy(s) == s # <<>>

hitFacet(q, facet) ==
  LET f == LowerOrEmpty(facet) IN Truthy(f) /\ includes(q, f)

hitTagsNoTokens(q, facet) == hitFacet(q, facet)
hitTags(q, facet) ==
  LET tags == LowerOrEmpty(facet)
      words == splitNonWord(q)
  IN  /\ Truthy(tags)
      /\ \E k \in 1..Len(words) :
           Truthy(words[k]) /\ includes(tags, toLowerCase(words[k]))

rowMatchesWithContent(q, row) ==
  \/ hitFacet(q, row.project)
  \/ hitFacet(q, row.title)
  \/ hitTags(q, row.tags)
  \/ hitFacet(q, row.pillar)
  \/ hitFacet(q, row.medium)
  \/ hitFacet(q, row.audience)
  \/ hitFacet(q, row.content)

\* The predicate of rows.filter, q being message.toLowerCase().
rowMatches(q, row) ==
  \/ hitFacet(q, row.project)
  \/ hitFacet(q, row.title)
  \/ hitTags(q, row.tags)
  \/ hitFacet(q, row.pillar)
  \/ hitFacet(q, row.medium)
  \/ hitFacet(q, row.audience)

filterRows(q, rows) == SelectSeq(rows, LAMBDA row : rowMatches(q, row))

relevantNoFallback(matches, rows) == matches
relevantRows(matches, rows) == IF Len(matches) > 0 THEN matches ELSE rows

maxRowsDefault == 12

sliceAll(sorted, maxRows) == sorted
sliceRows(sorted, maxRows) == SubSeq(sorted, 1, Min(maxRows, Len(sorted)))

\* The locals of scopeKnowledgeToMessage; rows.length = 0 returns before any
\* of them is computed.
scopeMatches(message, rows) ==
  IF Len(rows) = 0 THEN <<>> ELSE filterRows(toLowerCase(message), rows)

scopeSorted(message, rows) ==
  IF Len(rows) = 0 THEN <<>>
  ELSE sortRows(relevantRows(scopeMatches(message, rows), rows))

scopeKnowledgeToMessage(message, rows) ==
  IF Len(rows) = 0 THEN <<>>
  ELSE sliceRows(scopeSorted(message, rows), maxRowsDefault)

\* --------------------------------------------------------- the serializer
NoMatchText == << <<"No matching entries found in portfolio-knowledge.", <<>> >> >>
SeparatorLine == <<"---", <<>> >>

rowLines(row) ==
  << <<"PROJECT", row.project>>,
     <<"TYPE", row.type>>,
     <<"TITLE", Coalesce(row.title, <<"(no title)">>)>>,
     <<"PILLAR", Coalesce(row.pillar, <<"(none)">>)>>,
     <<"MEDIUM", Coalesce(row.medium, <<"(none)">>)>>,
     <<"AUDIENCE", Coalesce(row.audience, <<"(none)">>)>>,
     <<"TAGS", Coalesce(row.tags, <<"(none)">>)>>,
     <<"ROLE", Coalesce(row.role, <<"(unspecified)">>)>>,
     <<"ONE_LINER", Coalesce(row.one_liner, <<"(none)">>)>>,
     <<"TOOLS_METHODS", Coalesce(row.tools_methods, <<"(none)">>)>>,
     <<"DEPTH", Coalesce(row.depth, <<"(none)">>)>>,
     <<"CONTENT", row.content>> >>

RECURSIVE joinWithoutSeparator(_)
joinWithoutSeparator(rows) ==
  IF Len(rows) = 1 THEN rowLines(rows[1])
  ELSE joinWithoutSeparator(SubSeq(rows, 1, Len(rows) - 1)) \o rowLines(rows[Len(rows)])

\* rows.map(...).join("\n\n---\n\n"): the text as its sequence of lines.
RECURSIVE joinBlocks(_)
joinBlocks(rows) ==
  IF Len(rows) = 1 THEN rowLines(rows[1])
  ELSE joinBlocks(SubSeq(rows, 1, Len(rows) - 1))
         \o <<SeparatorLine>> \o rowLines(rows[Len(rows)])

serializeNoSentinel(rows) == IF Len(rows) = 0 THEN <<>> ELSE joinBlocks(rows)
buildContextText(rows) ==
  IF Len(rows) = 0 THEN NoMatchText ELSE joinBlocks(rows)

\* ------------------------------------------------------------ the history
MAX_HISTORY_MESSAGES == 6

\* Array.isArray(body.history) ? body.history
\*   : Array.isArray(body.conversationHistory) ? body.conversationHistory : []
historyOnly(body) == IF body.history.isArray THEN body.history.items ELSE <<>>
historyRaw(body) ==
  IF body.history.isArray THEN body.history.items
  ELSE IF body.conversationHistory.isArray THEN body.conversationHistory.items
  ELSE <<>>

\* m.role and m.content of a null or undefined element raise a TypeError.
normalizeThrows(raw) == \E i \in 1..Len(raw) : ~raw[i].isObject

mapRoleAsGiven(m) == [role |-> m.role, content |-> Coalesce(m.content, <<>>)]
mapTrimmed(m) ==
  [role |-> IF m.role = S_assistant THEN S_assistant ELSE S_user,
   content |-> trim(Coalesce(m.content, <<>>))]
mapMessage(m) ==
  [role |-> IF m.role = S_assistant THEN S_assistant ELSE S_user,
   content |-> Coalesce(m.content, <<>>)]

keepAll(m) == TRUE
keepMessage(m) == Len(trim(m.content)) > 0

normalizeHistory(raw) ==
  SelectSeq([i \in 1..Len(raw) |-> mapMessage(raw[i])], keepMessage)

sliceHead(convo, n) == SubSeq(convo, 1, n)
sliceLast(convo, n) == SubSeq(convo, Len(convo) - n + 1, Len(convo))

dontTrim(convo) == convo
trimHistory(convo) ==
  IF Len(convo) > MAX_HISTORY_MESSAGES
  THEN sliceLast(convo, MAX_HISTORY_MESSAGES)
  ELSE convo

\* ------------------------------------------------------ the knowledge load
\* if (knowledgeCache): an empty array is truthy, only null is a miss.
\* The cache is null (isNull) or holds the row array of a successful fetch.
NullCache == [isNull |-> TRUE, rows |-> <<>>]
CacheOf(rows) == [isNull |-> FALSE, rows |-> rows]

cacheMissAlways(cache) == FALSE
cacheHitNonEmpty(cache) == ~cache.isNull /\ Len(cache.rows) > 0
cacheHit(cache) == ~cache.isNull

FetchResults == {"data", "nulldata", "error", "throw"}

\* The fetch outcomes that reach the assignment of knowledgeCache.
assignsAlways(res) == TRUE
fetchAssigns(res) == res \in {"data", "nulldata"}

\* (data as PortfolioRow[]) || []
dataOrEmpty(res, data) == IF res = "data" THEN data ELSE <<>>

cacheStoresEmptyOnFailure(res, data, cache) ==
  IF fetchAssigns(res) THEN CacheOf(dataOrEmpty(res, data)) ELSE CacheOf(<<>>)
cacheResetOnFailure(res, data, cache) ==
  IF fetchAssigns(res) THEN CacheOf(dataOrEmpty(res, data)) ELSE NullCache
cacheAfterFetch(res, data, cache) ==
  IF fetchAssigns(res) THEN CacheOf(dataOrEmpty(res, data)) ELSE cache

loadReturnRaw(res, data) == data
loadReturn(res, data) ==
  IF fetchAssigns(res) THEN dataOrEmpty(res, data) ELSE <<>>

\* ------------------------------------------------------------ the handler
\* A request before it is received.  pc is the await the handler stands at:
\* "parsing" (req.json), "fetching" (the supabase query inside
\* loadAllKnowledge), "generating" (groq.chat.completions.create).
\* load is how its call of loadAllKnowledge ended ("none": not yet),
\* cacheAtStart the cache that call found; matches and sorted are the locals
\* of its call of scopeKnowledgeToMessage.
NoArray == [isArray |-> FALSE, items |-> <<>>]
ArrayOf(items) == [isArray |-> TRUE, items |-> items]

NoBody ==
  [parsed |-> FALSE, message |-> Null, history |-> NoArray,
   conversationHistory |-> NoArray]

IdleReq ==
  [pc |-> "idle", body |-> NoBody, convo |-> <<>>, convoTrimmed |-> <<>>,
   load |-> "none", cacheAtStart |-> NullCache, allKnowledge |-> <<>>,
   matches |-> <<>>, sorted |-> <<>>, scopedKnowledge |-> <<>>,
   contextText |-> <<>>, groqMessages |-> <<>>,
   status |-> 0]

Reqs == DOMAIN req

\* The fixed instructions of the system prompt, which end with the line
\* "Portfolio knowledge:"; the context text follows on the next line.
PromptHeader == <<"Portfolio knowledge:", <<>> >>

\* `...${contextText}\n`.trim(): the trim of the whole prompt takes the
\* white space off the end of the last line of the context text (a last
\* value of white space only would lose the blank after its label as well,
\* which the lines keep).
keepTextEnd(text) == text
trimTextEnd(text) ==
  IF text = <<>> THEN text
  ELSE [text EXCEPT ![Len(text)] = <<@[1], trimEnd(@[2])>>]

SystemPrompt(contextText) ==
  [role |-> S_system, content |-> <<PromptHeader>> \o trimTextEnd(contextText)]
UserTurn(message) == [role |-> S_user, content |-> message]

\* groqMessages: the system prompt, the bounded history, the current turn.
buildMessagesTurnFirst(text, convoTrimmed, message) ==
  <<SystemPrompt(text)>> \o <<UserTurn(message)>> \o convoTrimmed
buildMessages(text, convoTrimmed, message) ==
  <<SystemPrompt(text)>> \o convoTrimmed \o <<UserTurn(message)>>

\* A handler that would scope whatever the shared cache holds at that moment
\* instead of the rows its own load returned.
toGenerationFromCache(rq, how, rows) ==
  LET scoped == scopeKnowledgeToMessage(rq.body.message, knowledgeCache.rows)
      text == buildContextText(scoped)
  IN  [rq EXCEPT !.pc = "generating", !.load = how, !.allKnowledge = rows,
                 !.matches = scopeMatches(rq.body.message, rows),
                 !.sorted = scopeSorted(rq.body.message, rows),
                 !.scopedKnowledge = scoped, !.contextText = text,
                 !.groqMessages =
                    buildMessages(text, rq.convoTrimmed, rq.body.message)]

\* Steps 1 to 3 of POST after loadAllKnowledge has returned rows: scope,
\* serialize, build the messages and call the generation collaborator.
toGeneration(rq, how, rows) ==
  LET scoped == scopeKnowledgeToMessage(rq.body.message, rows)
      text == buildContextText(scoped)
  IN  [rq EXCEPT !.pc = "generating", !.load = how, !.allKnowledge = rows,
                 !.matches = scopeMatches(rq.body.message, rows),
                 !.sorted = scopeSorted(rq.body.message, rows),
                 !.scopedKnowledge = scoped, !.contextText = text,
                 !.groqMessages =
                    buildMessages(text, rq.convoTrimmed, rq.body.message)]

\* The array handed to scopeKnowledgeToMessage after the call: relevant is
\* that very array when nothing matches, and the sort works on a copy of it
\* ([...relevant]), so the array keeps its rows and their order.
rowsSortedInPlace(message, rows) ==
  IF Len(rows) = 0 \/ Len(filterRows(toLowerCase(message), rows)) > 0 THEN rows
  ELSE sortRows(rows)
rowsAfterScope(message, rows) == rows

respond(rq, code) == [rq EXCEPT !.pc = "done", !.status = code]

\* A throw of loadAllKnowledge would reach the catch of POST.
loadRethrows(rq, res, data) ==
  IF res = "throw" THEN respond([rq EXCEPT !.load = res], 500)
  ELSE toGeneration(rq, res, loadReturn(res, data))
afterFetch(rq, res, data) == toGeneration(rq, res, loadReturn(res, data))

\* A handler without the API key check.
ReceiveIgnoringKey(r) ==
  /\ req[r].pc = "idle"
  /\ req' = [req EXCEPT ![r] = [@ EXCEPT !.pc = "parsing"]]
  /\ UNCHANGED <<supabase, groqKey, db, knowledgeCache, cacheWrites, fetches>>

\* POST up to its first await: the API key check, then req.json().
Receive(r) ==
  /\ req[r].pc = "idle"
  /\ req' = [req EXCEPT ![r] =
               IF groqKey THEN [@ EXCEPT !.pc = "parsing"] ELSE respond(@, 500)]
  /\ UNCHANGED <<supabase, groqKey, db, knowledgeCache, cacheWrites, fetches>>

\* req.json() has settled with body b: validation, history normalisation and
\* the call of loadAllKnowledge up to its await (or its early return).  A
\* cached call returns the array of the cache itself, which is scoped at once.
Parsed(r, Bodies) ==
  /\ req[r].pc = "parsing"
  /\ \E b \in Bodies :
       LET raw == historyRaw(b)
           convo == normalizeHistory(raw)
           rq == [req[r] EXCEPT !.body = b]
           ready == [rq EXCEPT !.convo = convo,
                               !.convoTrimmed = trimHistory(convo),
                               !.cacheAtStart = knowledgeCache]
       IN  IF ~b.parsed \/ b.message = Null
             THEN /\ req' = [req EXCEPT ![r] = respond(rq, 400)]
                  /\ fetches' = fetches
                  /\ knowledgeCache' = knowledgeCache
           ELSE IF normalizeThrows(raw)
             THEN /\ req' = [req EXCEPT ![r] = respond(rq, 500)]
                  /\ fetches' = fetches
                  /\ knowledgeCache' = knowledgeCache
           ELSE IF ~supabase
             THEN /\ req' = [req EXCEPT ![r] = toGeneration(ready, "noclient", <<>>)]
                  /\ fetches' = fetches
                  /\ knowledgeCache' = knowledgeCache
           ELSE IF cacheHit(knowledgeCache)
             THEN /\ req' = [req EXCEPT ![r] =
                               toGeneration(ready, "cached", knowledgeCache.rows)]
                  /\ fetches' = fetches
                  /\ knowledgeCache' =
                       CacheOf(rowsAfterScope(b.message, knowledgeCache.rows))
           ELSE /\ req' = [req EXCEPT ![r] = [ready EXCEPT !.pc = "fetching"]]
                /\ fetches' = fetches + 1
                /\ knowledgeCache' = knowledgeCache
  /\ UNCHANGED <<supabase, groqKey, db, cacheWrites>>

\* The supabase query of request r settles: with the rows the collaborator
\* holds now, with null data, with an error object, or by throwing.  The
\* array a successful fetch returns is the one it stored in the cache.
FetchDone(r) ==
  /\ req[r].pc = "fetching"
  /\ \E res \in FetchResults :
       /\ knowledgeCache' =
            LET cache == cacheAfterFetch(res, db, knowledgeCache)
            IN  IF fetchAssigns(res)
                THEN CacheOf(rowsAfterScope(req[r].body.message, cache.rows))
                ELSE cache
       /\ cacheWrites' = cacheWrites + (IF fetchAssigns(res) THEN 1 ELSE 0)
       /\ req' = [req EXCEPT ![r] = afterFetch(@, res, db)]
  /\ UNCHANGED <<supabase, groqKey, db, fetches>>

GenResults == {"text", "empty", "throw"}

\* A handler without the catch of POST: a throw of the generation call would
\* leave the request unanswered.
GenDoneUncaught(r) ==
  /\ req[r].pc = "generating"
  /\ \E g \in GenResults :
       req' = [req EXCEPT ![r] =
                 IF g = "throw" THEN [@ EXCEPT !.pc = "unanswered"]
                 ELSE respond(@, 200)]
  /\ UNCHANGED <<supabase, groqKey, db, knowledgeCache, cacheWrites, fetches>>

\* The generation call settles: a response of 200, or the catch of POST.
GenDone(r) ==
  /\ req[r].pc = "generating"
  /\ \E g \in GenResults :
       req' = [req EXCEPT ![r] = respond(@, IF g = "throw" THEN 500 ELSE 200)]
  /\ UNCHANGED <<supabase, groqKey, db, knowledgeCache, cacheWrites, fetches>>

\* ----------------------------------------------------------------- inputs
\* A row of portfolio-knowledge; the query orders the rows by id.
Row(id, project, type, title, tags, pillar, medium, audience, depth) ==
  [id |-> id, project |-> project, type |-> type, title |-> title,
   content |-> <<"c">>, tags |-> tags, role |-> Null, pillar |-> pillar,
   medium |-> medium, aspect |-> Null, audience |-> audience,
   tools_methods |-> Null, one_liner |-> Null, is_highlight |-> Null,
   depth |-> depth]

Body(message, history, conversationHistory) ==
  [parsed |-> TRUE, message |-> message, history |-> history,
   conversationHistory |-> conversationHistory]

Msg(role, content) == [isObject |-> TRUE, role |-> role, content |-> content]
NullMsg == [isObject |-> FALSE, role |-> Null, content |-> Null]

\* Sequences over S of length at most n.
SeqsUpTo(S, n) == UNION {[1..k -> S] : k \in 0..n}

\* The store specification: concurrent requests against a table that gains
\* rows between two fetches.
RowA == Row(1, <<"a","b">>, S_summary, Null, Null, Null, Null, Null, S_overview)
RowB == Row(2, <<"b">>, S_quote, Null, Null, Null, Null, Null, Null)

StoreTable == <<RowA, RowB>>
StoreCorpora == {SubSeq(StoreTable, 1, k) : k \in 1..Len(StoreTable)}

StoreBodies ==
  {NoBody, Body(Null, NoArray, NoArray), Body(<<"a","b">>, ArrayOf(<<>>), NoArray)}

\* The match specification: every query over QueryChars up to MaxQueryLen
\* against corpora whose first row varies one facet.
QueryChars == {"a", "b", "A", " ", "-"}
Queries == SeqsUpTo(QueryChars, MaxQueryLen)

Facets == {"project", "title", "tags", "pillar", "medium", "audience"}
FacetVals ==
  {Null, <<>>, <<"a">>, <<"A">>, <<"a","b">>, <<"a"," ","b">>, <<"-">>,
   <<"a","-">>}

PlainRow(id, project) ==
  Row(id, project, S_quote, Null, Null, Null, Null, Null, Null)

\* The fields the filter does not read hold texts that occur in the queries.
FocusRow(id, f, v) ==
  [[PlainRow(id, <<"b","b">>) EXCEPT
      !.content = <<"a">>, !.type = <<"a">>, !.role = <<"b">>,
      !.one_liner = <<"A">>, !.tools_methods = <<"a">>, !.depth = <<"b">>]
   EXCEPT ![f] = v]

FocusRows ==
  {FocusRow(1, f, v) : f \in Facets, v \in FacetVals} \ {FocusRow(1, "project", Null)}

MatchCorpora == {<<row>> : row \in FocusRows}
                  \cup {<<row, PlainRow(2, <<"b">>)>> : row \in FocusRows}

MatchBodies == {Body(q, NoArray, NoArray) : q \in Queries}

\* The rank specification: corpora of up to MaxRows rows whose types and
\* depths run through RankTemplates with a stride and an offset.
RankTemplates ==
  << <<S_summary, S_overview>>, <<S_Summary, S_supporting_detail>>,
     <<S_quote, S_Overview>>, <<S_quote, S_deep_dive>>, <<S_method, Null>>,
     <<S_quote, S_supporting_detail>> >>

RankRow(i, k) ==
  Row(i, <<"b","b">>, RankTemplates[k][1], Null,
      IF i = 2 THEN Null ELSE <<"a">>, Null, Null, Null, RankTemplates[k][2])

RankCorpus(n, stride, offset) ==
  [i \in 1..n |-> RankRow(i, ((i * stride + offset) % Len(RankTemplates)) + 1)]

RankCorpora ==
  {RankCorpus(n, stride, offset) :
     n \in 0..MaxRows, stride \in 1..(Len(RankTemplates) - 1),
     offset \in 0..(Len(RankTemplates) - 1)}

RankBodies == {Body(q, NoArray, NoArray) : q \in {<<"a">>, <<"b","b">>, <<"-">>}}

\* The history specification: raw histories up to MaxHistLen of valid and
\* blank turns, and short ones of every shape of element.
UserA == Msg(S_user, <<"a">>)
AssistantB == Msg(S_assistant, <<"b">>)
BlankTurn == Msg(S_user, <<" ">>)

HistElems ==
  {UserA, AssistantB, BlankTurn, NullMsg, Msg(S_system, <<" ","a"," ">>),
   Msg(S_Assistant, <<"b">>), Msg(Null, <<"a">>), Msg(S_assistant, Null),
   Msg(S_assistant, <<>>)}

Histories ==
  SeqsUpTo({UserA, AssistantB, BlankTurn}, MaxHistLen) \cup SeqsUpTo(HistElems, 2)

HistoryBodies ==
  {Body(<<"a">>, ArrayOf(h), NoArray) : h \in Histories}
    \cup {Body(<<"a">>, NoArray, ArrayOf(h)) : h \in SeqsUpTo(HistElems, 1)}
    \cup {Body(<<"a">>, ArrayOf(h), ArrayOf(<<UserA>>)) :
            h \in {<<>>, <<AssistantB>>}}
    \cup {Body(<<"a">>, NoArray, NoArray), NoBody}

\* ---------------------------------------------------------- specifications
InitWith(Corpora, clients, keys, n) ==
  /\ supabase \in clients
  /\ groqKey \in keys
  /\ db \in Corpora
  /\ knowledgeCache = NullCache
  /\ req = [r \in 1..n |-> IdleReq]
  /\ cacheWrites = 0
  /\ fetches = 0

\* A row is inserted into the collaborator's table.
DbChange ==
  /\ Len(db) < Len(StoreTable)
  /\ db' = SubSeq(StoreTable, 1, Len(db) + 1)
  /\ UNCHANGED <<supabase, groqKey, knowledgeCache, req, cacheWrites, fetches>>

Init == InitWith(StoreCorpora, BOOLEAN, BOOLEAN, NReq)
Next ==
  \/ \E r \in Reqs : Receive(r)
  \/ \E r \in Reqs : Parsed(r, StoreBodies)
  \/ \E r \in Reqs : FetchDone(r)
  \/ \E r \in Reqs : GenDone(r)
  \/ DbChange
Spec == Init /\ [][Next]_vars

InitMatch == InitWith(MatchCorpora, {TRUE}, {TRUE}, 1)
NextMatch ==
  \/ \E r \in Reqs : Receive(r)
  \/ \E r \in Reqs : Parsed(r, MatchBodies)
  \/ \E r \in Reqs : FetchDone(r)
  \/ \E r \in Reqs : GenDone(r)
SpecMatch == InitMatch /\ [][NextMatch]_vars

InitRank == InitWith(RankCorpora, {TRUE}, {TRUE}, 1)
NextRank ==
  \/ \E r \in Reqs : Receive(r)
  \/ \E r \in Reqs : Parsed(r, RankBodies)
  \/ \E r \in Reqs : FetchDone(r)
  \/ \E r \in Reqs : GenDone(r)
SpecRank == InitRank /\ [][NextRank]_vars

InitHistory == InitWith({<<RowA>>}, {TRUE}, {TRUE}, 1)
NextHistory ==
  \/ \E r \in Reqs : Receive(r)
  \/ \E r \in Reqs : Parsed(r, HistoryBodies)
  \/ \E r \in Reqs : FetchDone(r)
  \/ \E r \in Reqs : GenDone(r)
SpecHistory == InitHistory /\ [][NextHistory]_vars

\* The frame specification: two requests over one cache whose rows the
\* ranker reorders, with queries that match rows and queries that match none.
\* Some corpora hold contents that end with white space.
SpacedContent(rows) ==
  [i \in 1..Len(rows) |-> [rows[i] EXCEPT !.content = <<"c", " ">>]]

FrameCorpora ==
  {RankCorpus(n, stride, 0) :
     n \in 1..FrameRows, stride \in 1..(Len(RankTemplates) - 1)}
    \cup {SpacedContent(RankCorpus(n, 1, 0)) : n \in 1..FrameRows}

InitFrame == InitWith(FrameCorpora, {TRUE}, {TRUE}, 2)
NextFrame ==
  \/ \E r \in Reqs : Receive(r)
  \/ \E r \in Reqs : Parsed(r, RankBodies)
  \/ \E r \in Reqs : FetchDone(r)
  \/ \E r \in Reqs : GenDone(r)
SpecFrame == InitFrame /\ [][NextFrame]_vars

\* The liveness specification: every awaited call of a request that was
\* received settles (the body parse, the knowledge fetch, the generation
\* call), each by returning or by throwing.
LiveBodies ==
  StoreBodies \cup {Body(<<"a">>, ArrayOf(<<NullMsg>>), NoArray)}

InitLive == InitWith({<<RowA>>}, BOOLEAN, BOOLEAN, LiveReqs)
NextLive ==
  \/ \E r \in Reqs : Receive(r)
  \/ \E r \in Reqs : Parsed(r, LiveBodies)
  \/ \E r \in Reqs : FetchDone(r)
  \/ \E r \in Reqs : GenDone(r)
\* Some awaited call of some received request settles.  A request takes at
\* most three such steps, so weak fairness of their union lets none starve.
Settle ==
  \E r \in Reqs : Parsed(r, LiveBodies) \/ FetchDone(r) \/ GenDone(r)
AwaitsSettle == WF_vars(Settle)
SpecLive == InitLive /\ [][NextLive]_vars /\ AwaitsSettle

\* ------------------------------------------------------------------ claims
Called(r) == req[r].pc = "fetching" \/ req[r].load # "none"
Returned(r) == req[r].load # "none"
Fetched(r) == req[r].pc = "fetching" \/ req[r].load \in FetchResults
FailedLoads == {"noclient", "error", "throw"}

\* C1 as stated: every call of loadAllKnowledge that starts after the first
\* call has returned is served without any collaborator access, whatever the
\* outcome of the first call.
C1_SubsequentCallsNeverFetch ==
  [][\A r \in Reqs :
       (req[r].pc = "parsing" /\ \E k \in Reqs : Returned(k))
         => req'[r].pc # "fetching"]_vars

\* C1 amended: a call of loadAllKnowledge that starts when the cache is
\* populated returns the cached sequence without collaborator access; a call
\* that starts while the cache is still null (the first call, a call racing
\* it, a call after failed fetches) fetches when a client is configured.
C1_CachedCallsSkipFetch ==
  \A r \in Reqs :
    Called(r) /\ supabase =>
      IF req[r].cacheAtStart.isNull
      THEN Fetched(r)
      ELSE /\ req[r].load = "cached"
           /\ req[r].allKnowledge = req[r].cacheAtStart.rows

\* C1 witness: one call fetched the corpus and a later call was served it
\* from the cache.
C1_Witness ==
  \E r1, r2 \in Reqs :
    /\ req[r1].load = "data" /\ req[r1].allKnowledge # <<>>
    /\ req[r2].load = "cached"
    /\ req[r2].cacheAtStart = CacheOf(req[r1].allKnowledge)
    /\ req[r2].allKnowledge = req[r1].allKnowledge

\* C2 as stated: once knowledgeCache holds a row sequence its value never
\* changes afterwards.
C2_CacheNeverChanges ==
  [][~knowledgeCache.isNull => knowledgeCache' = knowledgeCache]_vars

\* C2 amended: a populated cache changes only when a fetch completes that a
\* first-caller started while the cache was still null, and it then holds
\* what that fetch returned; with no fetch in flight it never changes.
C2_ChangesOnlyByRacingFirstCallers ==
  [][(~knowledgeCache.isNull /\ knowledgeCache' # knowledgeCache) =>
       \E r \in Reqs :
         /\ req[r].pc = "fetching" /\ req[r].cacheAtStart.isNull
         /\ fetchAssigns(req'[r].load)
         /\ knowledgeCache' = CacheOf(req'[r].allKnowledge)]_vars

\* C2 witness: the cache was assigned twice and a call that had loaded the
\* corpus holds another sequence than the cache holds now.
C2_Witness ==
  /\ cacheWrites >= 2
  /\ \E r \in Reqs :
       req[r].load = "data" /\ req[r].allKnowledge # knowledgeCache.rows

\* C3 as stated: knowledgeCache is assigned at most once per process lifetime.
C3_AssignedAtMostOnce == cacheWrites <= 1

\* C3 amended: knowledgeCache is assigned exactly once per successful fetch,
\* and only calls that started while the cache was null fetch: k racing
\* first-callers may assign it up to k times, a call that starts after the
\* cache is populated never assigns it.
C3_OneAssignmentPerSuccessfulFetch ==
  /\ cacheWrites = Cardinality({r \in Reqs : req[r].load \in {"data", "nulldata"}})
  /\ \A r \in Reqs : Fetched(r) => req[r].cacheAtStart.isNull

\* C3 witness: two first-callers raced and both assigned the cache.
C3_Witness ==
  \E r1, r2 \in Reqs :
    /\ r1 # r2 /\ cacheWrites = 2
    /\ req[r1].load = "data" /\ req[r2].load = "data"

\* C4: loadAllKnowledge never throws: with no client, an error object or a
\* thrown fetch it returns the empty sequence, and the request goes on to the
\* generation call (with the no-match context) instead of failing.
C4_LoadNeverThrows ==
  \A r \in Reqs :
    req[r].load \in FailedLoads =>
      /\ req[r].allKnowledge = <<>>
      /\ req[r].scopedKnowledge = <<>>
      /\ req[r].contextText = NoMatchText
      /\ req[r].pc \in {"generating", "done"}
      /\ Len(req[r].groqMessages) >= 2

\* C4 witness: a fetch threw, another returned an error object, and both
\* requests were answered with status 200.
C4_Witness ==
  \E r1, r2 \in Reqs :
    /\ req[r1].load = "throw" /\ req[r1].status = 200
    /\ req[r2].load = "error" /\ req[r2].status = 200

Scoped(r) == req[r].load # "none"
Query(r) == toLowerCase(req[r].body.message)
Range(seq) == {seq[i] : i \in 1..Len(seq)}
Ids(seq) == {seq[i].id : i \in 1..Len(seq)}
RelevantOf(r) ==
  IF Len(req[r].matches) > 0 THEN req[r].matches ELSE req[r].allKnowledge

\* C6: when no row of a non-empty row set matches the query, ranking and
\* truncation operate on the full set: the scoped result holds
\* min(12, |R|) rows of R (all of R when it fits) and the context is not the
\* no-match text; the scoped result is empty only when R is empty.
C6_FallbackToFullSet ==
  \A r \in Reqs :
    Scoped(r) =>
      LET rows == req[r].allKnowledge
          scoped == req[r].scopedKnowledge
      IN  /\ (scoped = <<>>) <=> (rows = <<>>)
          /\ (rows # <<>> /\ \A i \in 1..Len(rows) : ~rowMatches(Query(r), rows[i]))
               => /\ Len(scoped) = Min(maxRowsDefault, Len(rows))
                  /\ Ids(scoped) \subseteq Ids(rows)
                  /\ Len(rows) <= maxRowsDefault => Ids(scoped) = Ids(rows)
                  /\ Len(req[r].contextText) > 1

\* C6 witness: neither of two rows matched the query and both were scoped.
C6_Witness ==
  \E r \in Reqs :
    /\ req[r].status = 200
    /\ Len(req[r].allKnowledge) = 2 /\ req[r].matches = <<>>
    /\ Len(req[r].scopedKnowledge) = 2

\* The pieces of q between white space.
RECURSIVE SplitSpaceFrom(_, _, _, _)
SplitSpaceFrom(s, i, cur, acc) ==
  IF i > Len(s) THEN acc \cup {cur}
  ELSE IF IsSpace(s[i]) THEN SplitSpaceFrom(s, i + 1, <<>>, acc \cup {cur})
  ELSE SplitSpaceFrom(s, i + 1, Append(cur, s[i]), acc)

WhitespaceTokens(q) == SplitSpaceFrom(q, 1, <<>>, {}) \ {<<>>}

\* The maximal runs of word characters of q.
WordRuns(q) ==
  {SubSeq(q, p[1], p[2]) :
     p \in {x \in (1..Len(q)) \X (1..Len(q)) :
              /\ x[1] <= x[2]
              /\ \A m \in x[1]..x[2] : IsWordChar(q[m])
              /\ (x[1] = 1 \/ ~IsWordChar(q[x[1] - 1]))
              /\ (x[2] = Len(q) \/ ~IsWordChar(q[x[2] + 1]))}}

FacetIn(q, facet) ==
  facet # Null /\ facet # <<>> /\ includes(q, toLowerCase(facet))

\* The match rule as C7 states it.
StatedRule(q, row) ==
  \/ \E f \in Facets : FacetIn(q, row[f])
  \/ /\ row.tags # Null
     /\ \E t \in WhitespaceTokens(q) : includes(toLowerCase(row.tags), t)

\* The match rule the filter implements.
AmendedRule(q, row) ==
  \/ \E f \in Facets \ {"tags"} : FacetIn(q, row[f])
  \/ /\ row.tags # Null /\ row.tags # <<>>
     /\ \E t \in WordRuns(q) : includes(toLowerCase(row.tags), t)

\* C7 as stated: a row matches iff a non-empty lowercased facet value among
\* project, title, tags, pillar, medium, audience is a substring of the
\* lowercased query or a whitespace-delimited token of the lowercased query
\* is a substring of the lowercased tags.
C7_StatedMatchRule ==
  \A r \in Reqs :
    Scoped(r) =>
      req[r].matches =
        SelectSeq(req[r].allKnowledge, LAMBDA row : StatedRule(Query(r), row))

\* C7 amended: a row matches iff a non-empty lowercased value of project,
\* title, pillar, medium or audience is a substring of the lowercased query,
\* or tags is non-empty and a maximal run of word characters [A-Za-z0-9_] of
\* the lowercased query is a substring of the lowercased tags (the tags value
\* being a substring of the query is not a match by itself); a row whose
\* title is contained in the query case-insensitively matches.
C7_MatchRule ==
  \A r \in Reqs :
    Scoped(r) =>
      req[r].matches =
        SelectSeq(req[r].allKnowledge, LAMBDA row : AmendedRule(Query(r), row))

\* C7 witness: the title "A" matched the query "A b" through its lowercase.
C7_Witness ==
  \E r \in Reqs :
    /\ req[r].status = 200
    /\ req[r].body.message = <<"A", " ", "b">>
    /\ Len(req[r].allKnowledge) = 1
    /\ req[r].allKnowledge[1].title = <<"A">>
    /\ req[r].matches = <<req[r].allKnowledge[1]>>

\* C8: the ranked sequence holds the relevant rows by composite score
\* descending, and two rows of equal score stand in their load order (the
\* order of their ids): no row precedes a row of strictly higher score.
C8_RankedDescendingAndStable ==
  \A r \in Reqs :
    Scoped(r) =>
      LET s == req[r].sorted
      IN  /\ Len(s) = Len(RelevantOf(r))
          /\ Ids(s) = Ids(RelevantOf(r))
          /\ \A i, j \in 1..Len(s) :
               i < j =>
                 /\ rowScore(s[i]) >= rowScore(s[j])
                 /\ rowScore(s[i]) = rowScore(s[j]) => s[i].id < s[j].id

\* C8 witness: a ranked sequence that moved a later row in front of an
\* earlier one and kept two rows of equal score in load order.
C8_Witness ==
  \E r \in Reqs :
    LET s == req[r].sorted
    IN  /\ req[r].status = 200
        /\ \E i, j \in 1..Len(s) : i < j /\ s[i].id > s[j].id
        /\ \E i, j \in 1..Len(s) :
             i < j /\ rowScore(s[i]) = rowScore(s[j]) /\ s[i].id < s[j].id

\* C9: the scoped result is the first min(12, number of relevant rows) rows
\* of the ranked sequence: it never holds more than 12 rows, and no relevant
\* row left out has a strictly higher composite score than a row kept.
C9_TruncatedToTwelve ==
  \A r \in Reqs :
    Scoped(r) =>
      LET s == req[r].sorted
          scoped == req[r].scopedKnowledge
      IN  /\ Len(scoped) = Min(12, Len(RelevantOf(r)))
          /\ Len(scoped) <= 12
          /\ \A i \in 1..Len(scoped) : scoped[i] = s[i]
          /\ \A x \in Range(RelevantOf(r)) :
               x.id \notin Ids(scoped) =>
                 \A k \in 1..Len(scoped) : rowScore(x) <= rowScore(scoped[k])

\* C9 witness: thirteen of fourteen rows matched and the scoped result kept
\* twelve of them, leaving out a row of lower score than one it kept.
C9_Witness ==
  \E r \in Reqs :
    /\ req[r].status = 200
    /\ Len(req[r].allKnowledge) = 14 /\ Len(req[r].matches) = 13
    /\ Len(req[r].scopedKnowledge) = 12
    /\ \E x \in Range(req[r].matches) :
         /\ x.id \notin Ids(req[r].scopedKnowledge)
         /\ rowScore(x) < rowScore(req[r].scopedKnowledge[1])

IsSuffix(t, s) ==
  Len(t) <= Len(s) /\ t = SubSeq(s, Len(s) - Len(t) + 1, Len(s))

\* C10: the bounded history holds at most MAX_HISTORY_MESSAGES = 6 messages
\* and is the suffix of the normalized history of length
\* min(6, its length), in the original order.
C10_HistoryIsBoundedSuffix ==
  \A r \in Reqs :
    /\ Len(req[r].convoTrimmed) <= 6
    /\ Len(req[r].convoTrimmed) = Min(6, Len(req[r].convo))
    /\ IsSuffix(req[r].convoTrimmed, req[r].convo)

\* C10 witness: eight valid messages were cut to the last six, which are not
\* the first six.
C10_Witness ==
  \E r \in Reqs :
    /\ req[r].status = 200
    /\ Len(req[r].convo) = 8 /\ Len(req[r].convoTrimmed) = 6
    /\ req[r].convoTrimmed = SubSeq(req[r].convo, 3, 8)
    /\ req[r].convoTrimmed # SubSeq(req[r].convo, 1, 6)

\* The requests whose body passed validation: JSON with a string message.
ValidBody(r) == req[r].body.parsed /\ req[r].body.message # Null

\* C11: malformed history input is never fatal: whatever the elements of the
\* history array (null, undefined, without role or content), a request with a
\* valid body is not answered with an error before it reaches the knowledge
\* load; normalization recovers by coercion and defaulting.
C11_MalformedHistoryNeverFatal ==
  \A r \in Reqs :
    (req[r].pc = "done" /\ ValidBody(r)) =>
      /\ ~normalizeThrows(historyRaw(req[r].body))
      /\ req[r].load # "none"

\* The labels of the optional facet lines, and the lines of one row inside a
\* serialized text (block k of 12 lines and a separator line).
OptionalLabels ==
  {"TITLE", "PILLAR", "MEDIUM", "AUDIENCE", "TAGS", "ROLE", "ONE_LINER",
   "TOOLS_METHODS", "DEPTH"}
LinesPerRow == Len(rowLines(RowA))
BlockOf(text, k) ==
  SubSeq(text, (k - 1) * (LinesPerRow + 1) + 1,
         (k - 1) * (LinesPerRow + 1) + LinesPerRow)

\* C12: for every serialized row each of the nine optional facet lines is
\* there, and none of them is blank: an absent facet, an empty string
\* included, shows a placeholder token.
C12_NoOptionalFacetLineBlank ==
  \A r \in Reqs :
    \A k \in 1..Len(req[r].scopedKnowledge) :
      LET block == BlockOf(req[r].contextText, k)
      IN  /\ OptionalLabels \subseteq {block[i][1] : i \in 1..Len(block)}
          /\ \A i \in 1..Len(block) :
               block[i][1] \in OptionalLabels => block[i][2] # <<>>

\* C13: the serialization of an empty row sequence is the one fixed sentinel
\* text; a request whose load failed (no client, an error, a throw) renders
\* exactly the sentinel; a non-empty sequence never renders the sentinel,
\* neither as its text nor as one of its lines.
C13_EmptyCorpusSentinel ==
  \A r \in Reqs :
    Scoped(r) =>
      /\ Len(req[r].scopedKnowledge) = 0 => req[r].contextText = NoMatchText
      /\ req[r].load \in FailedLoads =>
           /\ req[r].allKnowledge = <<>>
           /\ req[r].contextText = NoMatchText
      /\ Len(req[r].scopedKnowledge) > 0 =>
           /\ req[r].contextText # NoMatchText
           /\ NoMatchText[1] \notin Range(req[r].contextText)
      /\ req[r].groqMessages[1] = SystemPrompt(req[r].contextText)

\* C13 witness: one request was served the sentinel after a failed fetch
\* while the table held rows, and another rendered rows.
C13_Witness ==
  \E r, s \in Reqs :
    /\ req[r].load = "error" /\ Len(db) > 0
    /\ req[r].contextText = NoMatchText /\ req[r].status = 200
    /\ req[s].load = "data" /\ Len(req[s].scopedKnowledge) > 0
    /\ req[s].contextText # NoMatchText

\* The requests whose history was normalized, and their raw history.
Normalized(r) ==
  /\ req[r].pc \in {"fetching", "generating", "done"}
  /\ ValidBody(r)
  /\ ~normalizeThrows(historyRaw(req[r].body))
Raw(r) == historyRaw(req[r].body)

\* A text with a character that is not whitespace; a missing content has none.
HasInk(content) ==
  content # Null /\ \E j \in 1..Len(content) : ~IsSpace(content[j])

\* C14: every element whose content is missing, empty or whitespace-only is
\* dropped: the normalized history has one message per raw element with
\* visible content, and each message of the normalized and of the truncated
\* history has non-empty trimmed content.
C14_NoEmptyTurn ==
  \A r \in Reqs :
    Normalized(r) =>
      /\ Len(req[r].convo)
           = Cardinality({i \in 1..Len(Raw(r)) : HasInk(Raw(r)[i].content)})
      /\ \A i \in 1..Len(req[r].convo) : HasInk(req[r].convo[i].content)
      /\ \A i \in 1..Len(req[r].convoTrimmed) :
           /\ HasInk(req[r].convoTrimmed[i].content)
           /\ trim(req[r].convoTrimmed[i].content) # <<>>

\* C14 witness: an element without content and a whitespace-only element were
\* dropped from a history whose request was answered.
C14_Witness ==
  \E r \in Reqs :
    /\ Normalized(r) /\ req[r].status = 200
    /\ Len(Raw(r)) = 2 /\ req[r].convo = <<>>
    /\ Raw(r)[1].content = Null
    /\ Raw(r)[2].content = <<" ">>

\* The text coercions of the contents of the raw elements that are kept.
KeptContents(raw) ==
  SelectSeq([i \in 1..Len(raw) |-> Coalesce(raw[i].content, <<>>)], HasInk)
ContentsOf(convo) == [i \in 1..Len(convo) |-> convo[i].content]
TrimAll(texts) == [i \in 1..Len(texts) |-> trim(texts[i])]

\* C15 as stated: the content of every message kept by the normalizer is the
\* text coercion of the raw content with leading and trailing whitespace
\* removed.
C15_ContentIsTrimmed ==
  \A r \in Reqs :
    Normalized(r) => ContentsOf(req[r].convo) = TrimAll(KeptContents(Raw(r)))

\* C15: the content of every message kept by the normalizer is the text
\* coercion of the raw content, unchanged: leading and trailing whitespace
\* stays, trimming only decides whether the message is kept.
C15_ContentKeptVerbatim ==
  \A r \in Reqs :
    Normalized(r) => ContentsOf(req[r].convo) = KeptContents(Raw(r))

\* C15 witness: a kept message whose content starts and ends with a space
\* went to the generation step with both spaces.
C15_Witness ==
  \E r \in Reqs :
    /\ Normalized(r) /\ req[r].status = 200
    /\ \E i \in 1..Len(req[r].convoTrimmed) :
         /\ req[r].convoTrimmed[i].content = <<" ", "a", " ">>
         /\ req[r].groqMessages[i + 1].content = <<" ", "a", " ">>

\* The raw elements that are kept, in order, and the roles of a history.
KeptVisible(m) == HasInk(m.content)
KeptRaw(raw) == SelectSeq(raw, KeptVisible)
RolesOf(convo) == [i \in 1..Len(convo) |-> convo[i].role]

\* C16: every message of the normalized history has role user or assistant;
\* it is assistant exactly when the role of its raw element is exactly
\* "assistant", and user for every other value or a missing role.
C16_RoleCoercion ==
  \A r \in Reqs :
    Normalized(r) =>
      /\ Len(req[r].convo) = Len(KeptRaw(Raw(r)))
      /\ \A i \in 1..Len(req[r].convo) :
           /\ req[r].convo[i].role \in {S_user, S_assistant}
           /\ req[r].convo[i].role = S_assistant
                <=> KeptRaw(Raw(r))[i].role = S_assistant
      /\ \A i \in 1..Len(req[r].convoTrimmed) :
           req[r].convoTrimmed[i].role \in {S_user, S_assistant}

\* C16 witness: of two kept elements with roles "Assistant" and "assistant"
\* the first became a user message and the second an assistant message.
C16_Witness ==
  \E r \in Reqs :
    /\ Normalized(r) /\ req[r].status = 200
    /\ Len(Raw(r)) = 2
    /\ Raw(r)[1].role = S_Assistant /\ Raw(r)[2].role = S_assistant
    /\ RolesOf(req[r].convo) = <<S_user, S_assistant>>

\* C17 as stated: a request whose history input is not an array has a
\* normalized history of zero messages.
C17_NonArrayHistoryIsEmpty ==
  \A r \in Reqs :
    (Normalized(r) /\ ~req[r].body.history.isArray) => req[r].convo = <<>>

\* C17: the history is read from body.history when that is an array, else
\* from body.conversationHistory when that is an array; only when neither
\* is an array is the history treated as empty.
C17_NonArrayFallsBackToAlias ==
  \A r \in Reqs :
    Normalized(r) =>
      LET h == req[r].body.history
          ch == req[r].body.conversationHistory
      IN  /\ (~h.isArray /\ ~ch.isArray) => req[r].convo = <<>>
          /\ (~h.isArray /\ ch.isArray) =>
               ContentsOf(req[r].convo) = KeptContents(ch.items)
          /\ h.isArray => ContentsOf(req[r].convo) = KeptContents(h.items)

\* C17 witness: a request without a history array whose conversationHistory
\* array gave one message, answered with that message in the prompt.
C17_Witness ==
  \E r \in Reqs :
    /\ Normalized(r) /\ req[r].status = 200
    /\ ~req[r].body.history.isArray
    /\ req[r].body.conversationHistory.isArray
    /\ Len(req[r].convo) = 1
    /\ Len(req[r].groqMessages) = 3

C19_CacheKeepsLoadOrder ==
  /\ ~knowledgeCache.isNull =>
       /\ knowledgeCache.rows \in {db, <<>>}
       /\ \A i, j \in 1..Len(knowledgeCache.rows) :
            i < j => knowledgeCache.rows[i].id < knowledgeCache.rows[j].id
  /\ \A r \in Reqs :
       req[r].load = "cached" => req[r].allKnowledge \in {db, <<>>}

\* C19 witness: nothing matched the queries of two requests, the first
\* stored the rows and ranked all of them into another order, the second
\* was served from the cache, and the cache still holds the load order.
C19_Witness ==
  \E r, s \in Reqs :
    /\ req[r].load = "data" /\ req[s].load = "cached"
    /\ req[r].status = 200 /\ req[s].status = 200
    /\ req[r].matches = <<>> /\ req[s].matches = <<>>
    /\ Len(req[r].allKnowledge) = 3
    /\ req[r].scopedKnowledge # req[r].allKnowledge
    /\ req[s].scopedKnowledge = req[r].scopedKnowledge
    /\ knowledgeCache.rows = db

\* C20: the store goes from unloaded to loaded and never back: in every
\* step taken from a state whose knowledgeCache is non-null the cache is
\* non-null afterwards, whether the step is a load that succeeds, a load
\* that fails, or any other step.
C20_LoadedIsTerminal ==
  [][~knowledgeCache.isNull => ~knowledgeCache'.isNull]_vars

\* C20 witness: a fetch has loaded the cache, the load of another request
\* has failed, and a third fetch is still to settle on the loaded cache.
C20_Witness ==
  \E r, s, t \in Reqs :
    /\ ~knowledgeCache.isNull
    /\ req[r].load = "data" /\ knowledgeCache.rows = req[r].allKnowledge
    /\ req[s].load \in {"error", "throw"}
    /\ req[t].pc = "fetching"

\* A label that is present and equals the target up to the case of its
\* letters.
SameIgnoringCase(label, target) ==
  /\ label # Null
  /\ Len(label) = Len(target)
  /\ \A i \in 1..Len(target) : label[i] = target[i] \/ LowerChar(label[i]) = target[i]

StatedTierA(row) ==
  IF \E t \in {S_project_summary, S_summary, S_outcome, S_method} :
       SameIgnoringCase(row.type, t)
  THEN 2 ELSE 0

StatedTierB(row) ==
  IF SameIgnoringCase(row.depth, S_overview) THEN 2
  ELSE IF SameIgnoringCase(row.depth, S_supporting_detail) THEN 1
  ELSE 0

\* C21: the score the ranker gives a row is TierA + TierB: 2 for a preferred
\* content type plus 2 for depth overview or 1 for supporting_detail, both
\* compared without regard to case; it lies in 0..4, and a summary row of
\* depth overview scores 4.
C21_CompositeScore ==
  \A r \in Reqs :
    \A i \in 1..Len(req[r].sorted) :
      LET row == req[r].sorted[i]
      IN  /\ rowScore(row) = StatedTierA(row) + StatedTierB(row)
          /\ rowScore(row) \in 0..4
          /\ (row.type = S_summary /\ row.depth = S_overview) => rowScore(row) = 4

\* C21 witness: one ranked set holds a summary overview row scoring 4, a
\* "Summary" row of supporting detail scoring 3, a quote of depth "Overview"
\* scoring 2 and a deep-dive quote scoring 0.
C21_Witness ==
  \E r \in Reqs :
    /\ req[r].status = 200
    /\ \E a, b, c, d \in Range(req[r].sorted) :
         /\ a.type = S_summary /\ a.depth = S_overview /\ rowScore(a) = 4
         /\ b.type = S_Summary /\ b.depth = S_supporting_detail /\ rowScore(b) = 3
         /\ c.type = S_quote /\ c.depth = S_Overview /\ rowScore(c) = 2
         /\ d.type = S_quote /\ d.depth = S_deep_dive /\ rowScore(d) = 0

FixedLabels ==
  <<"PROJECT", "TYPE", "TITLE", "PILLAR", "MEDIUM", "AUDIENCE", "TAGS", "ROLE",
    "ONE_LINER", "TOOLS_METHODS", "DEPTH", "CONTENT">>

\* C22: the text of k > 0 rows is k blocks of twelve labelled lines in the
\* fixed order, block j rendering row j of the input, with one separator
\* line between consecutive blocks: 12k lines and k - 1 separators.
C22_UniformShape ==
  \A r \in Reqs :
    LET rows == req[r].scopedKnowledge
        text == req[r].contextText
        k == Len(rows)
    IN  (Scoped(r) /\ k > 0) =>
          /\ Len(text) = 12 * k + (k - 1)
          /\ \A j \in 1..k :
               LET block == BlockOf(text, j)
               IN  /\ [i \in 1..12 |-> block[i][1]] = FixedLabels
                   /\ block[1][2] = rows[j].project
                   /\ block[2][2] = rows[j].type
                   /\ block[7][2] =
                        IF rows[j].tags = Null THEN <<"(none)">> ELSE rows[j].tags
                   /\ block[11][2] =
                        IF rows[j].depth = Null THEN <<"(none)">> ELSE rows[j].depth
                   /\ block[12][2] = rows[j].content
          /\ \A i \in 1..Len(text) : (i % 13 = 0) <=> text[i] = SeparatorLine

\* C22 witness: twelve rows of differing types were rendered as twelve
\* blocks with eleven separators.
C22_Witness ==
  \E r \in Reqs :
    /\ req[r].status = 200
    /\ Len(req[r].scopedKnowledge) = 12
    /\ req[r].scopedKnowledge[1].type # req[r].scopedKnowledge[12].type
    /\ Len(req[r].contextText) = 155
    /\ Cardinality({i \in 1..155 : req[r].contextText[i] = SeparatorLine}) = 11

\* The requests that called the generation collaborator.
ReachedGeneration(r) == req[r].load # "none"

Blanked(row) ==
  [row EXCEPT !.content = <<"z">>, !.type = <<"z">>, !.role = Null,
              !.one_liner = Null, !.tools_methods = Null, !.depth = Null,
              !.is_highlight = Null]
BlankedRows(rows) == [i \in 1..Len(rows) |-> Blanked(rows[i])]
Positions(selected, rows) ==
  {i \in 1..Len(rows) : rows[i].id \in Ids(selected)}

\* C24: the filter selects the same positions in the loaded rows and in the
\* row set that differs from them only in content, contentType, role,
\* one_liner, tools_methods, depth and is_highlight, for every query; a row
\* none of whose six matched facets is hit is not selected, whatever its
\* other fields hold.
C24_ContentExcludedFromMatching ==
  \A r \in Reqs :
    (Scoped(r) /\ Len(req[r].allKnowledge) > 0) =>
      LET rows == req[r].allKnowledge
          other == BlankedRows(rows)
      IN  /\ Positions(req[r].matches, rows)
               = Positions(filterRows(Query(r), other), other)
          /\ \A i \in 1..Len(rows) :
               (\A f \in Facets : ~includes(Query(r), LowerOrEmpty(rows[i][f]))
                                    \/ LowerOrEmpty(rows[i][f]) = <<>>)
                 /\ LowerOrEmpty(rows[i].tags) = <<>>
                 => i \notin Positions(req[r].matches, rows)

\* C24 witness: the content, type and tools of a row occur in the query
\* "ab", none of its matched facets does, and the row was not selected while
\* the other row was.
C24_Witness ==
  \E r \in Reqs :
    /\ req[r].status = 200 /\ Query(r) = <<"a", "b">>
    /\ Len(req[r].allKnowledge) = 2
    /\ req[r].allKnowledge[1].content = <<"a">>
    /\ req[r].allKnowledge[1].type = <<"a">>
    /\ Positions(req[r].matches, req[r].allKnowledge) = {2}

\* t occurs in s as a run of consecutive lines.
ContainsLines(s, t) ==
  \E k \in 0..(Len(s) - Len(t)) : SubSeq(s, k + 1, k + Len(t)) = t

\* w is white space only.
AllSpace(w) == \A i \in 1..Len(w) : IsSpace(w[i])

FetchFails(r) ==
  req[r].pc = "fetching" /\ req'[r].load \in {"error", "throw"}

\* C26: a load whose fetch ends with an error object or an exception leaves
\* knowledgeCache as it was, null or populated by another load, and returns
\* an empty sequence to its request.
C26_FailingLoadKeepsCache ==
  [][\A r \in Reqs :
       FetchFails(r) =>
         /\ knowledgeCache' = knowledgeCache
         /\ cacheWrites' = cacheWrites
         /\ req'[r].allKnowledge = <<>>]_vars

\* C26 witness: one fetch failed and returned no rows while the cache holds
\* the rows another fetch stored.
C26_Witness ==
  \E r, s \in Reqs :
    /\ req[s].load \in {"error", "throw"} /\ req[s].allKnowledge = <<>>
    /\ req[s].cacheAtStart.isNull
    /\ req[r].load = "data" /\ cacheWrites = 1
    /\ knowledgeCache = CacheOf(req[r].allKnowledge)
    /\ Len(knowledgeCache.rows) > 0

\* Request r calls loadAllKnowledge in this step, with a client configured.
LoadStarts(r) ==
  /\ req[r].pc = "parsing" /\ req'[r].pc \in {"fetching", "generating"}
  /\ supabase

\* C27: a failed load is not cached.  While no fetch has succeeded the cache
\* is null, and a load that starts on a null cache issues a new fetch; a
\* fetch that succeeds populates the cache with the rows it returns, and a
\* load that starts afterwards is handed the cached rows.
C27_FailedLoadNotCached ==
  [][/\ (\A r \in Reqs : req[r].load \notin {"data", "nulldata"})
          => knowledgeCache.isNull
     /\ \A r \in Reqs :
          /\ (LoadStarts(r) /\ knowledgeCache.isNull) =>
               /\ req'[r].pc = "fetching"
               /\ fetches' = fetches + 1
          /\ (req[r].pc = "fetching" /\ req'[r].load \in {"data", "nulldata"}) =>
               /\ ~knowledgeCache'.isNull
               /\ knowledgeCache'.rows = req'[r].allKnowledge
          /\ (LoadStarts(r) /\ ~knowledgeCache.isNull) =>
               /\ req'[r].load = "cached"
               /\ req'[r].allKnowledge = knowledgeCache.rows]_vars

\* C27 witness: a fetch failed, another request fetched again and stored
\* the rows, and a third request was served those rows from the cache.
C27_Witness ==
  \E r, s, t \in Reqs :
    /\ req[s].load \in {"error", "throw"}
    /\ req[r].load = "data" /\ req[r].cacheAtStart.isNull
    /\ fetches = 2 /\ cacheWrites = 1
    /\ req[t].load = "cached" /\ Len(req[t].allKnowledge) > 0
    /\ req[t].allKnowledge = req[r].allKnowledge

\* C28 as stated: once a successful fetch has yielded zero rows, every load
\* that starts later returns the empty sequence without a fetch.
C28_EmptyResultServesAllLaterLoads ==
  [][\A r \in Reqs :
       (LoadStarts(r) /\ \E s \in Reqs : req[s].load = "nulldata") =>
         /\ req'[r].load = "cached"
         /\ req'[r].allKnowledge = <<>>
         /\ fetches' = fetches]_vars

\* C28: a successful fetch that yields zero rows stores the empty sequence,
\* and that counts as loaded: a load that starts while the cache holds the
\* empty sequence returns it without a fetch.  The empty cache is replaced
\* only by the rows of a fetch that was issued while the cache was null.
C28_EmptyResultCountsAsLoaded ==
  [][/\ \A r \in Reqs :
          /\ (req[r].pc = "fetching" /\ req'[r].load = "nulldata") =>
               /\ knowledgeCache' = CacheOf(<<>>)
               /\ req'[r].allKnowledge = <<>>
          /\ (LoadStarts(r) /\ knowledgeCache = CacheOf(<<>>)) =>
               /\ req'[r].load = "cached"
               /\ req'[r].allKnowledge = <<>>
               /\ fetches' = fetches
               /\ knowledgeCache' = knowledgeCache
     /\ (knowledgeCache = CacheOf(<<>>) /\ knowledgeCache' # knowledgeCache) =>
          \E r \in Reqs :
            /\ req[r].pc = "fetching" /\ req[r].cacheAtStart.isNull
            /\ req'[r].load = "data"]_vars

\* C28 witness: the only fetch returned no data and no error while the table
\* held rows, and a later request was served the empty sequence from the
\* cache without a fetch.
C28_Witness ==
  \E s, t \in Reqs :
    /\ req[s].load = "nulldata" /\ Len(db) > 0
    /\ knowledgeCache = CacheOf(<<>>)
    /\ req[t].load = "cached" /\ req[t].allKnowledge = <<>>
    /\ fetches = 1 /\ req[t].status = 200

\* Request r is answered in this step before its call of loadAllKnowledge.
RejectedNow(r) == req[r].pc \in {"idle", "parsing"} /\ req'[r].pc = "done"

\* C29: validation precedes loading.  Without the generation API key every
\* request is answered 500 at once; a request whose body cannot be parsed or
\* whose message is not a string is answered 400; either is answered without
\* a call of loadAllKnowledge, without a fetch, without a call of the
\* generation collaborator, and with knowledgeCache left as it was.
C29_ValidationPrecedesLoading ==
  [][\A r \in Reqs :
       /\ (req[r].pc = "idle" /\ req'[r].pc # "idle" /\ ~groqKey) =>
            req'[r].pc = "done" /\ req'[r].status = 500
       /\ (req[r].pc = "parsing" /\ req'[r].pc # "parsing"
             /\ (~req'[r].body.parsed \/ req'[r].body.message = Null)) =>
            req'[r].pc = "done" /\ req'[r].status = 400
       /\ RejectedNow(r) =>
            /\ req'[r].load = "none"
            /\ req'[r].groqMessages = <<>>
            /\ fetches' = fetches
            /\ cacheWrites' = cacheWrites
            /\ knowledgeCache' = knowledgeCache]_vars

\* C29 witness: with the cache populated by one fetch, a request with an
\* unparsable body and a request whose body has no string message were both
\* answered 400 without a load.
C29_Witness ==
  \E r, s, t \in Reqs :
    /\ req[t].load = "data" /\ knowledgeCache = CacheOf(req[t].allKnowledge)
    /\ fetches = 1
    /\ req[r].status = 400 /\ ~req[r].body.parsed /\ req[r].load = "none"
    /\ req[s].status = 400 /\ req[s].body.parsed /\ req[s].body.message = Null
    /\ req[s].load = "none" /\ req[s].groqMessages = <<>>

\* C30: every request that was received is eventually answered, with status
\* 400, 500 or 200, provided its awaited calls settle; it is answered once:
\* no status is set before the answer and an answered request never
\* changes; a throw after validation leads to the 500 answer.
C30_EveryRequestAnswered ==
  /\ \A r \in 1..LiveReqs :
       (req[r].pc # "idle") ~>
         (req[r].pc = "done" /\ req[r].status \in {200, 400, 500})
  /\ [][\A r \in 1..LiveReqs : req[r].pc = "done" => req'[r] = req[r]]_vars
  /\ [](\A r \in 1..LiveReqs : req[r].pc # "done" => req[r].status = 0)

\* C30 witness: one request was answered 500 after its generation call
\* threw, the other 500 after its history normalization threw.
C30_Witness ==
  \E r, s \in 1..LiveReqs :
    /\ req[r].pc = "done" /\ req[r].status = 500 /\ req[r].load # "none"
    /\ Len(req[r].groqMessages) > 0
    /\ req[s].pc = "done" /\ req[s].status = 500 /\ req[s].load = "none"
    /\ ValidBody(s) /\ groqKey

====
